---- MODULE Spec2Model ----
(***************************************************************************)
(* Model of xrpl_defi: the retrying JSON-RPC client                        *)
(* (robust_client.py), the two account_tx walkers (markets/amm.py,         *)
(* markets/trades.py), the record assemblers (prepare_amm_data,            *)
(* prepare_trades_data) and the selective_lru_cache decorator              *)
(* (utils/cache.py).                                                       *)
(*                                                                         *)
(* The specifications share the variables:                                 *)
(*   SpecRpc     one client, a bounded number of _request_impl invocations *)
(*   SpecCancel  SpecRpc with a caller that sets a cancellation signal     *)
(*   Spec        one scan of one walker against a bounded service history  *)
(*   SpecJoin    one amm scan over the modelled pools and trust lines      *)
(*   SpecRescan  a scan followed by a second scan with the same arguments  *)
(*   SpecOverlap one scan against a service that may repeat a transaction  *)
(*   SpecLive    one scan with the walker scheduled fairly                 *)
(*   SpecAsm     one call of an assembler on a bounded input               *)
(*   SpecCache   calls of one function decorated by selective_lru_cache    *)
(* The variables of the parts a specification does not run keep their      *)
(* idle values.                                                            *)
(***************************************************************************)
EXTENDS Integers, Sequences, FiniteSets, TLC

VARIABLES
    \* ---- RobustJsonRpcClient ----
    max_retries,      \* self.max_retries
    retry_delay,      \* self.retry_delay, in tenths of a second
    attempt,          \* loop variable of _request_impl
    last_exception,   \* local last_exception
    rpc_pc,           \* position inside _request_impl
    rpc_result,       \* what the invocation ended with
    rpc_log,          \* observable effects of the invocation, in order
    calls,            \* number of invocations started on this client
    cancel_at,        \* set by the caller's cancellation signal: the length
                      \* of rpc_log at that moment
    \* ---- the ledger-query service, as one scan sees it ----
    history,          \* the account's transactions, in account_tx order
    amm_assets,       \* amount / amount2 of the amm_info result
    account_lines,    \* currencies of the account_lines result, in order
    \* ---- arguments of the walker ----
    walker,           \* "amm": fetch_amm_historical_payment_and_balances,
                      \* "trades": get_amm_trades
    limit,
    max_ledger_index,
    max_freq,
    min_ledger_index,
    \* ---- locals of the walker ----
    latest_ledger,
    cap,
    asset_1,
    asset_2,
    marker,
    transactions,     \* response["transactions"] of the page being drained
    resp_marker,      \* response.get("marker") of that page
    pos,              \* position of the for loop inside transactions
    ledger_index,     \* ledger_index (amm) / tx_ledger_index (trades)
    last_event,
    pc,
    \* ---- what the scan did ----
    emitted,          \* the records yielded so far, in order
    requests,         \* the client.request calls made so far, in order
    scan_error,       \* the exception that ended the scan, if any
    next_calls,       \* next() calls the consumer has made on the generator
    previous,         \* what an earlier scan with the same arguments yielded
    page_overlap,     \* transactions the service repeats on the next page
    \* ---- one call of prepare_amm_data / prepare_trades_data ----
    asm_fn,           \* which of the two functions is called
    amm_data,         \* its argument (payment_transactions in trades.py)
    input_kind,       \* "list", or "iterator" for a one-shot iterable
    df,               \* the rows of the DataFrame it returns
    asm_pc,
    asm_error,
    \* ---- one function decorated by selective_lru_cache ----
    arg_names,        \* the decorator's arg_names
    maxsize,          \* the decorator's maxsize
    lru_entries,      \* keys held by lru_cache, least recently used first
    func_calls,       \* the calls that reached the wrapped function, in order
    wrapper_calls     \* the calls made to the decorated function, in order

rpc_vars == <<max_retries, retry_delay, attempt, last_exception, rpc_pc,
              rpc_result, rpc_log, calls, cancel_at>>

walk_vars == <<history, amm_assets, account_lines, walker, limit,
               max_ledger_index, max_freq, min_ledger_index, latest_ledger, cap,
               asset_1, asset_2, marker, transactions, resp_marker, pos,
               ledger_index, last_event, pc, emitted, requests, scan_error,
               next_calls, previous, page_overlap>>

(* What no statement of a walker writes.                                   *)
scan_env == <<previous, page_overlap>>

asm_vars == <<asm_fn, amm_data, input_kind, df, asm_pc, asm_error>>

cache_vars == <<arg_names, maxsize, lru_entries, func_calls, wrapper_calls>>

vars == <<rpc_vars, walk_vars, asm_vars, cache_vars>>

----------------------------------------------------------------------------
(* Optional values (Python None).                                          *)
None == [some |-> FALSE, v |-> 0]

Some(x) == [some |-> TRUE, v |-> x]

----------------------------------------------------------------------------
(* Bounds of the client model.                                             *)
MaxRetries == 2

MaxDelay == 2

MaxCalls == 2

(* What one http_client.post can end with: an exception of the transport,  *)
(* or an HTTP response with a status and a body.                           *)
HttpStatuses == {200, 404, 499, 500, 503}

Bodies == {"json", "text"}

TransportErrors ==
    {"ConnectError", "ConnectTimeout", "ReadTimeout", "ConnectionError",
     "TimeoutError", "WriteError"}

PostOutcomes ==
    [kind : TransportErrors, status : {0}, body : {"none"}]
    \cup [kind : {"response"}, status : HttpStatuses, body : Bodies]

(* The exception classes named by the except clause of _request_impl.      *)
RetryableErrors ==
    {"XRPLRequestFailureException", "TimeoutError", "ConnectionError",
     "ConnectError", "ReadTimeout", "ConnectTimeout"}

(* IsServerError with the boundary status 500 left out.                    *)
IsServerError_gt(status) == status > 500

(* response.status_code >= 500 raises XRPLRequestFailureException.         *)
IsServerError(status) == status >= 500

(* response.json() raises JSONDecodeError unless the body is JSON.         *)
JsonDecodable(body) == body = "json"

(* The exception, if any, that the try block of one attempt raises.        *)
AttemptError(o) ==
    IF o.kind # "response" THEN o.kind
    ELSE IF IsServerError(o.status) THEN "XRPLRequestFailureException"
    ELSE IF ~JsonDecodable(o.body) THEN "XRPLRequestFailureException"
    ELSE "none"

(* BackoffDelay with 2 * attempt written for 2 ** attempt.                 *)
BackoffDelay_linear(d, i) == d * (2 * i)

(* delay = self.retry_delay * (2 ** attempt)                               *)
BackoffDelay(d, i) == d * (2 ^ i)

(* if attempt < self.max_retries: sleep and loop; else: raise.             *)
MayRetry(i, r) == i < r

----------------------------------------------------------------------------
RpcIdle ==
    /\ max_retries = 0
    /\ retry_delay = 0
    /\ attempt = 0
    /\ last_exception = None
    /\ rpc_pc = "idle"
    /\ rpc_result = [kind |-> "none", status |-> 0, error |-> None]
    /\ rpc_log = <<>>
    /\ calls = 0
    /\ cancel_at = None

(* RobustJsonRpcClient.__init__ followed by the entry of the first         *)
(* _request_impl: last_exception = None, attempt = 0.                      *)
RpcStart ==
    /\ max_retries \in 0..MaxRetries
    /\ retry_delay \in 0..MaxDelay
    /\ attempt = 0
    /\ last_exception = None
    /\ rpc_pc = "attempt"
    /\ rpc_result = [kind |-> "none", status |-> 0, error |-> None]
    /\ rpc_log = <<>>
    /\ calls = 1
    /\ cancel_at = None

(* One pass through the try block: the POST and what follows it up to the  *)
(* return, the raise or the decision to sleep.                             *)
Attempt(o) ==
    /\ rpc_pc = "attempt"
    /\ attempt <= max_retries
    /\ LET err == AttemptError(o)
           exc == [kind |-> err, att |-> attempt]
           logged == Append(rpc_log, [ev |-> "post", att |-> attempt,
                                      status |-> o.status, body |-> o.body,
                                      err |-> err, delay |-> 0])
       IN  /\ rpc_log' = logged
           /\ IF err = "none"
              THEN \* return json_to_response(response.json())
                   /\ rpc_pc' = "returned"
                   /\ rpc_result' = [kind |-> "response", status |-> o.status,
                                     error |-> None]
                   /\ UNCHANGED last_exception
              ELSE IF err \notin RetryableErrors
              THEN \* not caught by the except clause: propagates
                   /\ rpc_pc' = "raised"
                   /\ rpc_result' = [kind |-> "error", status |-> 0,
                                     error |-> Some(exc)]
                   /\ UNCHANGED last_exception
              ELSE /\ last_exception' = Some(exc)
                   /\ IF MayRetry(attempt, max_retries)
                      THEN /\ rpc_pc' = "backoff"
                           /\ UNCHANGED rpc_result
                      ELSE \* raise last_exception
                           /\ rpc_pc' = "raised"
                           /\ rpc_result' = [kind |-> "error", status |-> 0,
                                             error |-> Some(exc)]
    /\ UNCHANGED <<max_retries, retry_delay, attempt, calls, cancel_at>>
    /\ UNCHANGED <<walk_vars, asm_vars, cache_vars>>

(* await asyncio.sleep(delay), then the next iteration of the loop.        *)
Backoff ==
    /\ rpc_pc = "backoff"
    /\ rpc_log' = Append(rpc_log, [ev |-> "sleep", att |-> attempt,
                                   status |-> 0, body |-> "none",
                                   err |-> "none",
                                   delay |-> BackoffDelay(retry_delay, attempt)])
    /\ attempt' = attempt + 1
    /\ rpc_pc' = "attempt"
    /\ UNCHANGED <<max_retries, retry_delay, last_exception, rpc_result, calls,
                   cancel_at>>
    /\ UNCHANGED <<walk_vars, asm_vars, cache_vars>>

(* The loop variable of an invocation that follows one which stopped at    *)
(* attempt `left`, had the counter been kept on the client object.         *)
InitialAttempt_kept(left) == left

(* for attempt in range(...): the loop variable is a local of the          *)
(* invocation and starts at the first element of the range.                *)
InitialAttempt(left) == 0

(* The next invocation of _request_impl on the same client object.         *)
NewCall ==
    /\ rpc_pc \in {"returned", "raised"}
    /\ calls < MaxCalls
    /\ calls' = calls + 1
    /\ attempt' = InitialAttempt(attempt)
    /\ last_exception' = None
    /\ rpc_pc' = "attempt"
    /\ rpc_result' = [kind |-> "none", status |-> 0, error |-> None]
    /\ rpc_log' = <<>>
    /\ cancel_at' = None
    /\ UNCHANGED <<max_retries, retry_delay>>
    /\ UNCHANGED <<walk_vars, asm_vars, cache_vars>>

NextRpc ==
    \/ \E o \in PostOutcomes : Attempt(o)
    \/ Backoff
    \/ NewCall

(* A client constructed with any integer budget: the constructor stores    *)
(* max_retries unchecked, so a negative one is possible.                   *)
RpcStartAnyBudget ==
    /\ max_retries \in -1..MaxRetries
    /\ retry_delay \in 0..MaxDelay
    /\ attempt = 0
    /\ last_exception = None
    /\ rpc_pc = "attempt"
    /\ rpc_result = [kind |-> "none", status |-> 0, error |-> None]
    /\ rpc_log = <<>>
    /\ calls = 1
    /\ cancel_at = None

(* range(max_retries + 1) is exhausted without a return or a raise: the    *)
(* function body ends and the invocation returns None.                     *)
FallThrough ==
    /\ rpc_pc = "attempt"
    /\ attempt > max_retries
    /\ rpc_pc' = "returned"
    /\ rpc_result' = [kind |-> "none", status |-> 0, error |-> None]
    /\ UNCHANGED <<max_retries, retry_delay, attempt, last_exception, rpc_log,
                   calls, cancel_at>>
    /\ UNCHANGED <<walk_vars, asm_vars, cache_vars>>

NextRpcAnyBudget == NextRpc \/ FallThrough

(* The caller sets its cancellation / deadline signal while an invocation  *)
(* is under way. _request_impl takes no such signal and no statement of it *)
(* reads one: the step changes nothing the invocation sees.                *)
Cancel ==
    /\ rpc_pc \in {"attempt", "backoff"}
    /\ ~cancel_at.some
    /\ cancel_at' = Some(Len(rpc_log))
    /\ UNCHANGED <<max_retries, retry_delay, attempt, last_exception, rpc_pc,
                   rpc_result, rpc_log, calls>>
    /\ UNCHANGED <<walk_vars, asm_vars, cache_vars>>

NextCancel == NextRpc \/ Cancel

----------------------------------------------------------------------------
(* Bounds of the scan model.                                               *)
MaxHist == 3

(* Ledger indices and ripple dates of the modelled history, page sizes and *)
(* sampling intervals offered to a scan.                                   *)
LedgerIndexes == {1, 2}

Dates == {0, 1, 2}

Limits == {1, 2}

(* Explicit max_ledger_index arguments; without one the cap is the newest  *)
(* validated ledger.                                                       *)
Caps == {1}

Intervals == {2}

TransactionTypes == {"Payment", "OfferCreate", "TrustSet"}

(* amm_info results: XRP drops (a str) or an issued currency (hex code).   *)
AssetPairs == {<<"drops", "41">>, <<"41", "drops">>, <<"41", "42">>}

(* account_lines results: the currencies of the trust lines, in order. A   *)
(* standard currency comes as its three-letter code, not as 40 hex digits. *)
LineSeqs == {<<>>, <<"41">>, <<"42">>, <<"41", "42">>, <<"42", "41">>,
             <<"USD">>, <<"USD", "41">>, <<"41", "USD">>}

(* The newest validated ledger of the service.                             *)
ServiceLatest == CHOOSE m \in LedgerIndexes : \A i \in LedgerIndexes : i <= m

TxBodies ==
    [ledger_index : LedgerIndexes, date : Dates,
     TransactionType : TransactionTypes]

WithHash(b, h) ==
    [ledger_index |-> b.ledger_index, date |-> b.date,
     TransactionType |-> b.TransactionType, hash |-> h]

(* account_tx with forward=True returns the transactions in ledger order.  *)
LedgerOrdered(h) ==
    \A i \in 1..(Len(h) - 1) : h[i].ledger_index <= h[i + 1].ledger_index

(* get_amm_trades never reads the date of a transaction.                   *)
DatesRead(w, h) == w = "amm" \/ \A i \in 1..Len(h) : h[i].date = 0

AllPayments(h) == \A i \in 1..Len(h) : h[i].TransactionType = "Payment"

(* A local that is unbound, None or an int.                                *)
Unbound == [st |-> "unbound", v |-> 0]

NoneInt == [st |-> "none", v |-> 0]

IntVal(i) == [st |-> "int", v |-> i]

Min(a, b) == IF a <= b THEN a ELSE b

----------------------------------------------------------------------------
(* ripple_time_to_datetime: a strictly increasing map of the ripple date.  *)
ripple_time_to_datetime(ripple_date) == ripple_date + 946684800

(* asset.py: bytes.fromhex(currency).decode('utf-8'), which raises         *)
(* ValueError on a string that is not hex ("USD").                         *)
decode_currency_symbol(currency) ==
    CASE currency = "41" -> "A"
      [] currency = "42" -> "B"
      [] OTHER -> "ValueError"

(* parse_amm_amount: a str amount is XRP drops, a dict carries a currency. *)
parse_amm_amount(amount) ==
    IF amount = "drops" THEN "XRP" ELSE decode_currency_symbol(amount)

(* get_latest_ledger_index: int(response["ledger"]["ledger_index"]).       *)
get_latest_ledger_index == ServiceLatest

(* cap = max_ledger_index if max_ledger_index is not None else latest.     *)
CapOf(mli, latest) == IF mli.some THEN mli.v ELSE latest

(* The account_tx page the service returns for a marker: up to limit       *)
(* transactions within the ledger bounds, and a marker when more remain.   *)
(* The marker names the position the next page starts at.                  *)
InBounds(tx, lo, hi) == (lo = -1 \/ tx.ledger_index >= lo) /\ (hi = -1 \/ tx.ledger_index <= hi)

(* The service names each transaction by a unique hash.                    *)
Stored == [i \in 1..Len(history) |-> WithHash(history[i], i)]

Eligible(lo, hi) == SelectSeq(Stored, LAMBDA tx : InBounds(tx, lo, hi))

PageOf(m, lim, lo, hi) ==
    LET all == Eligible(lo, hi)
        first == IF m.some THEN m.v ELSE 1
        last == Min(first + lim - 1, Len(all))
    IN  [transactions |-> SubSeq(all, first, last),
         marker |-> IF last < Len(all) THEN Some(last + 1 - page_overlap)
                    ELSE None]

(* TooClose with the operands of the subtraction exchanged.                *)
TooClose_reversed(timestamp, last, freq) == last.some /\ last.v - timestamp < freq

(* if last_event and timestamp - last_event < max_freq: continue           *)
TooClose(timestamp, last, freq) == last.some /\ timestamp - last.v < freq

(* The type filter of each walker.                                         *)
TypeMatches(w, type) ==
    IF w = "amm" THEN type = "Payment" ELSE type \in {"Payment", "OfferCreate"}

(* The loop over account_lines_response["lines"]:                          *)
(*   if currency == asset_1: set amount 1                                  *)
(*   elif currency == asset_2: set amount 2; break                         *)
(* decode_currency_symbol is called on every line the loop reaches, and    *)
(* its exception leaves the loop.                                          *)
RECURSIVE MatchLines(_, _, _, _, _)
MatchLines(lines, k, a1, a2, acc) ==
    IF k > Len(lines) THEN acc
    ELSE LET currency == decode_currency_symbol(lines[k])
         IN  IF currency = "ValueError"
             THEN [acc EXCEPT !.err = TRUE]
             ELSE IF currency = a1
             THEN MatchLines(lines, k + 1, a1, a2, [acc EXCEPT !.set1 = TRUE])
             ELSE IF currency = a2
             THEN [acc EXCEPT !.set2 = TRUE]
             ELSE MatchLines(lines, k + 1, a1, a2, acc)

(* if asset_1 == "XRP": amount 1 = balance; elif asset_2 == "XRP": ...     *)
ApplyBalance(a1, a2, acc) ==
    IF a1 = "XRP" THEN [acc EXCEPT !.set1 = TRUE]
    ELSE IF a2 = "XRP" THEN [acc EXCEPT !.set2 = TRUE]
    ELSE acc

NeedsBalance(a1, a2) == a1 = "XRP" \/ a2 = "XRP"

(* AuxLedgerIndex querying the newest validated ledger instead.            *)
AuxLedgerIndex_latest(tx, latest) == latest

(* ledger_index=... of the AccountLines request and of get_balance.        *)
AuxLedgerIndex(tx, latest) == tx.ledger_index

(* NextMarker handing back a cursor other than the one received.           *)
NextMarker_moved(response_marker) ==
    IF response_marker.some THEN Some(response_marker.v + 1) ELSE response_marker

(* NextMarker starting over from the first page.                           *)
NextMarker_restart(response_marker) ==
    IF response_marker.some THEN Some(1) ELSE response_marker

(* marker = response.get("marker")                                         *)
NextMarker(response_marker) == response_marker

(* ReachedCap with > written for >=.                                       *)
ReachedCap_gt(li, c) == li.st = "int" /\ li.v > c

(* if ledger_index is not None and ledger_index >= cap: break              *)
ReachedCap(li, c) == li.st = "int" /\ li.v >= c

Req(kind, m, lo, hi, li, h) ==
    [kind |-> kind, marker |-> m, lo |-> lo, hi |-> hi, ledger_index |-> li,
     hash |-> h]

Record(tx, sets) ==
    [hash |-> tx.hash, ledger_index |-> tx.ledger_index, date |-> tx.date,
     TransactionType |-> tx.TransactionType,
     amm_asset_1_amount |-> sets.set1, amm_asset_2_amount |-> sets.set2]

NoAmounts == [set1 |-> FALSE, set2 |-> FALSE, err |-> FALSE]

----------------------------------------------------------------------------
WalkIdle ==
    /\ history = <<>>
    /\ amm_assets = <<"drops", "41">>
    /\ account_lines = <<>>
    /\ walker = "none"
    /\ limit = 0
    /\ max_ledger_index = None
    /\ max_freq = 0
    /\ min_ledger_index = -1
    /\ latest_ledger = 0
    /\ cap = 0
    /\ asset_1 = "unbound"
    /\ asset_2 = "unbound"
    /\ marker = None
    /\ transactions = <<>>
    /\ resp_marker = None
    /\ pos = 0
    /\ ledger_index = Unbound
    /\ last_event = None
    /\ pc = "idle"
    /\ emitted = <<>>
    /\ requests = <<>>
    /\ scan_error = "none"
    /\ next_calls = 0
    /\ previous = None
    /\ page_overlap = 0

(* The locals of a walker before its first statement has run: calling a    *)
(* generator function runs none of its body.                               *)
LocalsStart ==
    /\ latest_ledger = 0
    /\ cap = 0
    /\ asset_1 = "unbound"
    /\ asset_2 = "unbound"
    /\ marker = None
    /\ transactions = <<>>
    /\ resp_marker = None
    /\ pos = 0
    /\ ledger_index = Unbound
    /\ last_event = None
    /\ pc = "setup"
    /\ emitted = <<>>
    /\ requests = <<>>
    /\ scan_error = "none"
    /\ next_calls = 0

(* The state at the call of a walker: its arguments, and the service it    *)
(* is pointed at (an XRP/issued-currency pool with its one trust line).    *)
WalkStart ==
    /\ walker \in {"amm", "trades"}
    /\ \E n \in 0..MaxHist : history \in [1..n -> TxBodies]
    /\ LedgerOrdered(history)
    /\ DatesRead(walker, history)
    /\ limit \in Limits
    /\ max_ledger_index \in {None} \cup {Some(i) : i \in Caps}
    /\ min_ledger_index = -1
    /\ max_freq \in (IF walker = "amm" THEN Intervals ELSE {0})
    /\ amm_assets = <<"drops", "41">>
    /\ account_lines = <<"41">>
    /\ previous = None
    /\ page_overlap = 0
    /\ LocalsStart

(* The calls of WalkStart on histories of Payment and TrustSet alone: the  *)
(* walkers treat OfferCreate as one or the other of the two.               *)
LiveStart ==
    /\ WalkStart
    /\ \A i \in 1..Len(history) : history[i].TransactionType # "OfferCreate"

(* The call of a walker on a service that may begin a page with the last   *)
(* transaction of the page before it.                                      *)
OverlapStart ==
    /\ walker \in {"amm", "trades"}
    /\ \E n \in 0..MaxHist : history \in [1..n -> TxBodies]
    /\ LedgerOrdered(history)
    /\ DatesRead(walker, history)
    /\ page_overlap \in {0, 1}
    /\ limit \in {l \in Limits : l > page_overlap}
    /\ max_ledger_index = None
    /\ min_ledger_index = -1
    /\ max_freq \in (IF walker = "amm" THEN Intervals ELSE {0})
    /\ amm_assets = <<"drops", "41">>
    /\ account_lines = <<"41">>
    /\ previous = None
    /\ LocalsStart

(* The call of the amm walker on any of the modelled pools, whose          *)
(* account_lines result holds any of the modelled line sequences.          *)
JoinStart ==
    /\ walker = "amm"
    /\ \E n \in 0..MaxHist : history \in [1..n -> TxBodies]
    /\ LedgerOrdered(history)
    /\ AllPayments(history)
    /\ limit \in Limits
    /\ max_ledger_index = None
    /\ min_ledger_index = -1
    /\ max_freq \in Intervals
    /\ amm_assets \in AssetPairs
    /\ account_lines \in LineSeqs
    /\ previous = None
    /\ page_overlap = 0
    /\ LocalsStart

Fail ==
    /\ pc' = "failed"
    /\ scan_error' = "TransportExhausted"

(* The generator running on without the consumer asking.                  *)
Resumed_unasked(n) == n

(* The body of a generator runs only inside a next() call of its consumer: *)
(* from the top on the first, from the yield on each later one.            *)
Resumed(n) == n + 1

(* The first next() call, up to the while loop: get_latest_ledger_index,   *)
(* the cap,                                                                *)
(* and in the amm walker the amm_info request and parse_amm_amount.        *)
(* failing names the client.request that ends in an exhausted transport.   *)
Setup(failing) ==
    /\ pc = "setup"
    /\ failing \in (IF walker = "amm" THEN {"none", "ledger", "amm_info"}
                                      ELSE {"none", "ledger"})
    /\ LET r1 == Req("ledger", None, 0, 0, 0, 0)
           r2 == Req("amm_info", None, 0, 0, 0, 0)
       IN  IF failing = "ledger"
           THEN /\ requests' = Append(requests, r1)
                /\ Fail
                /\ UNCHANGED <<latest_ledger, cap, asset_1, asset_2, ledger_index>>
           ELSE /\ latest_ledger' = get_latest_ledger_index
                /\ cap' = CapOf(max_ledger_index, get_latest_ledger_index)
                /\ ledger_index' = (IF walker = "amm" THEN Unbound ELSE NoneInt)
                /\ IF walker = "amm"
                   THEN /\ requests' = requests \o <<r1, r2>>
                        /\ IF failing = "amm_info"
                           THEN /\ Fail
                                /\ UNCHANGED <<asset_1, asset_2>>
                           ELSE /\ asset_1' = parse_amm_amount(amm_assets[1])
                                /\ asset_2' = parse_amm_amount(amm_assets[2])
                                /\ pc' = "fetching"
                                /\ UNCHANGED scan_error
                   ELSE /\ requests' = Append(requests, r1)
                        /\ pc' = "fetching"
                        /\ UNCHANGED <<asset_1, asset_2, scan_error>>
    /\ next_calls' = Resumed(next_calls)
    /\ UNCHANGED <<history, amm_assets, account_lines, walker, limit,
                   max_ledger_index, max_freq, min_ledger_index, marker,
                   transactions, resp_marker, pos, last_event, emitted>>
    /\ UNCHANGED <<rpc_vars, asm_vars, cache_vars, scan_env>>

(* ledger_index_max following the last ledger index the loop has seen.     *)
ledger_index_max_seen(latest, seen) == IF seen.st = "int" THEN seen.v ELSE latest

(* ledger_index_max=latest_ledger of every AccountTx request; seen is the  *)
(* ledger index of the last transaction the loop has read.                 *)
ledger_index_max(latest, seen) == latest

(* The log of requests is kept finite: a scan of MaxHist transactions      *)
(* needs at most MaxHist + 1 page requests.                                *)
MaxPages == MaxHist + 2

PageRequests == Len(SelectSeq(requests, LAMBDA r : r.kind = "account_tx"))

(* The head of the while loop: the AccountTx request and its response.     *)
FetchPage(failing) ==
    /\ pc = "fetching"
    /\ PageRequests < MaxPages
    /\ LET lo == IF walker = "amm" THEN min_ledger_index ELSE -1
           hi == ledger_index_max(latest_ledger, ledger_index)
           page == PageOf(marker, limit, lo, hi)
       IN  /\ requests' = Append(requests, Req("account_tx", marker, lo, hi, 0, 0))
           /\ IF failing
              THEN /\ Fail
                   /\ UNCHANGED <<transactions, resp_marker, pos>>
              ELSE /\ transactions' = page.transactions
                   /\ resp_marker' = page.marker
                   /\ pos' = 1
                   /\ pc' = "draining"
                   /\ UNCHANGED scan_error
    /\ UNCHANGED <<history, amm_assets, account_lines, walker, limit,
                   max_ledger_index, max_freq, min_ledger_index, latest_ledger,
                   cap, asset_1, asset_2, marker, ledger_index, last_event,
                   emitted, next_calls>>
    /\ UNCHANGED <<rpc_vars, asm_vars, cache_vars, scan_env>>

(* One iteration of "for tx in transactions" of the amm walker, as far as   *)
(* its yield if it has one.                                                *)
ProcessTxAmm(failing) ==
    LET tx == transactions[pos]
        timestamp == ripple_time_to_datetime(tx.date)
        li == AuxLedgerIndex(tx, latest_ledger)
        q1 == Req("account_lines", None, 0, 0, li, tx.hash)
        q2 == Req("account_info", None, 0, 0, li, tx.hash)
        matched == MatchLines(account_lines, 1, asset_1, asset_2, NoAmounts)
        sets == ApplyBalance(asset_1, asset_2, matched)
    IN  /\ ledger_index' = IntVal(tx.ledger_index)
        /\ IF ~TypeMatches("amm", tx.TransactionType)
              \/ TooClose(timestamp, last_event, max_freq)
           THEN /\ failing = "none"
                /\ pos' = pos + 1
                /\ UNCHANGED <<last_event, emitted, requests, pc, scan_error>>
           ELSE IF failing = "account_lines"
           THEN /\ requests' = Append(requests, q1)
                /\ Fail
                /\ UNCHANGED <<pos, last_event, emitted>>
           ELSE IF matched.err
           THEN \* decode_currency_symbol raised inside the lines loop
                /\ failing = "none"
                /\ requests' = Append(requests, q1)
                /\ pc' = "crashed"
                /\ scan_error' = "ValueError"
                /\ UNCHANGED <<pos, last_event, emitted>>
           ELSE IF failing = "account_info"
           THEN /\ NeedsBalance(asset_1, asset_2)
                /\ requests' = requests \o <<q1, q2>>
                /\ Fail
                /\ UNCHANGED <<pos, last_event, emitted>>
           ELSE /\ requests' = (IF NeedsBalance(asset_1, asset_2)
                                THEN requests \o <<q1, q2>>
                                ELSE Append(requests, q1))
                /\ emitted' = Append(emitted, Record(tx, sets))
                /\ last_event' = Some(timestamp)
                /\ pc' = "yielded"
                /\ UNCHANGED <<pos, scan_error>>

(* One iteration of "for tx in transactions" of the trades walker, as far  *)
(* as its yield if it has one: tx_ledger_index is assigned after the       *)
(* yield.                                                                  *)
ProcessTxTrades(failing) ==
    LET tx == transactions[pos]
    IN  /\ failing = "none"
        /\ IF TypeMatches("trades", tx.TransactionType)
           THEN /\ emitted' = Append(emitted, Record(tx, NoAmounts))
                /\ pc' = "yielded"
                /\ UNCHANGED <<ledger_index, pos>>
           ELSE /\ ledger_index' = IntVal(tx.ledger_index)
                /\ pos' = pos + 1
                /\ UNCHANGED <<emitted, pc>>
        /\ UNCHANGED <<last_event, requests, scan_error>>

ProcessTx(failing) ==
    /\ pc = "draining"
    /\ pos <= Len(transactions)
    /\ IF walker = "amm" THEN ProcessTxAmm(failing) ELSE ProcessTxTrades(failing)
    /\ UNCHANGED <<history, amm_assets, account_lines, walker, limit,
                   max_ledger_index, max_freq, min_ledger_index, latest_ledger,
                   cap, asset_1, asset_2, marker, transactions, resp_marker,
                   next_calls>>
    /\ UNCHANGED <<rpc_vars, asm_vars, cache_vars, scan_env>>

(* The consumer's next() call on a generator suspended at "yield tx": the  *)
(* rest of the iteration (tx_ledger_index in the trades walker, the        *)
(* progress bar) and the step of the for loop.                             *)
Resume ==
    /\ pc = "yielded"
    /\ next_calls' = Resumed(next_calls)
    /\ ledger_index' = IntVal(transactions[pos].ledger_index)
    /\ pos' = pos + 1
    /\ pc' = "draining"
    /\ UNCHANGED <<history, amm_assets, account_lines, walker, limit,
                   max_ledger_index, max_freq, min_ledger_index, latest_ledger,
                   cap, asset_1, asset_2, marker, transactions, resp_marker,
                   last_event, emitted, requests, scan_error>>
    /\ UNCHANGED <<rpc_vars, asm_vars, cache_vars, scan_env>>

(* After the for loop: the cap check, then the marker check.               *)
EndOfPage ==
    /\ pc = "draining"
    /\ pos > Len(transactions)
    /\ IF ledger_index.st = "unbound"
       THEN \* the name ledger_index was never assigned
            /\ pc' = "crashed"
            /\ scan_error' = "UnboundLocalError"
            /\ UNCHANGED marker
       ELSE IF ReachedCap(ledger_index, cap)
       THEN /\ pc' = "done"
            /\ UNCHANGED <<marker, scan_error>>
       ELSE /\ marker' = NextMarker(resp_marker)
            /\ pc' = (IF NextMarker(resp_marker).some THEN "fetching" ELSE "done")
            /\ UNCHANGED scan_error
    /\ UNCHANGED <<history, amm_assets, account_lines, walker, limit,
                   max_ledger_index, max_freq, min_ledger_index, latest_ledger,
                   cap, asset_1, asset_2, transactions, resp_marker, pos,
                   ledger_index, last_event, emitted, requests, next_calls>>
    /\ UNCHANGED <<rpc_vars, asm_vars, cache_vars, scan_env>>

NextWalk ==
    \/ \E f \in {"none", "ledger", "amm_info"} : Setup(f)
    \/ \E f \in BOOLEAN : FetchPage(f)
    \/ \E f \in {"none", "account_lines", "account_info"} : ProcessTx(f)
    \/ Resume
    \/ EndOfPage

(* last_event of a new invocation keeping the value of the one before.     *)
InitialLastEvent_kept(left_behind) == left_behind

(* last_event = None, run by every invocation; left_behind is the value    *)
(* the local had when the invocation before returned.                      *)
InitialLastEvent(left_behind) == None

(* A finished scan is followed by a second call of the same walker with    *)
(* the same arguments against the same service: a new generator, whose     *)
(* locals start afresh.                                                    *)
Rescan ==
    /\ pc = "done"
    /\ ~previous.some
    /\ previous' = Some(emitted)
    /\ latest_ledger' = 0
    /\ cap' = 0
    /\ asset_1' = "unbound"
    /\ asset_2' = "unbound"
    /\ marker' = None
    /\ transactions' = <<>>
    /\ resp_marker' = None
    /\ pos' = 0
    /\ ledger_index' = Unbound
    /\ last_event' = InitialLastEvent(last_event)
    /\ pc' = "setup"
    /\ emitted' = <<>>
    /\ requests' = <<>>
    /\ scan_error' = "none"
    /\ next_calls' = 0
    /\ UNCHANGED <<history, amm_assets, account_lines, walker, limit,
                   max_ledger_index, max_freq, min_ledger_index, page_overlap>>
    /\ UNCHANGED <<rpc_vars, asm_vars, cache_vars>>

NextRescan == NextWalk \/ Rescan

----------------------------------------------------------------------------
(* Bound of the assembler model: the number of records handed over.        *)
MaxRows == 3

(* A record as a walker yields it, reduced to what the assemblers read.    *)
RowBodies ==
    [date : {0, 1}, ledger_index : LedgerIndexes,
     TransactionType : {"Payment", "OfferCreate"}]

Row(b, h) ==
    [date |-> b.date, ledger_index |-> b.ledger_index,
     TransactionType |-> b.TransactionType, hash |-> h]

Bijections(n) == {f \in [1..n -> 1..n] : \A i, j \in 1..n : f[i] = f[j] => i = j}

(* What "for tx in amm_data" iterates over.  prepare_amm_data has passed   *)
(* amm_data to pd.DataFrame before, which exhausts a one-shot iterator.    *)
RowsSeen(fn, kind, rows) ==
    IF fn = "prepare_amm_data" /\ kind = "iterator" THEN <<>> ELSE rows

(* The entry built for one transaction.                                    *)
Entry(tx) ==
    [timestamp |-> ripple_time_to_datetime(tx.date), tx_hash |-> tx.hash,
     ledger_index |-> tx.ledger_index]

(* df.sort_values(by="timestamp"): the rows in any order that is ascending *)
(* in timestamp; the default sort kind promises no order among equal keys. *)
SortedByTimestamp(data) ==
    {[i \in 1..Len(data) |-> data[f[i]]] :
        f \in {g \in Bijections(Len(data)) :
                 \A i \in 1..(Len(data) - 1) :
                     data[g[i]].timestamp <= data[g[i + 1]].timestamp}}

(* The match statement of prepare_trades_data stops at OfferCreate         *)
(* (ipdb.set_trace()); prepare_amm_data reads no transaction type.         *)
Unsupported(fn, rows) ==
    /\ fn = "prepare_trades_data"
    /\ \E i \in 1..Len(rows) : rows[i].TransactionType # "Payment"

AsmIdle ==
    /\ asm_fn = "none"
    /\ amm_data = <<>>
    /\ input_kind = "list"
    /\ df = <<>>
    /\ asm_pc = "idle"
    /\ asm_error = "none"

AsmStart ==
    /\ asm_fn \in {"prepare_amm_data", "prepare_trades_data"}
    /\ input_kind \in {"list", "iterator"}
    /\ \E n \in 0..MaxRows :
         \E b \in [1..n -> RowBodies], f \in Bijections(n) :
            amm_data = [i \in 1..n |-> Row(b[i], f[i])]
    /\ df = <<>>
    /\ asm_pc = "called"
    /\ asm_error = "none"

(* prepare_amm_data / prepare_trades_data, from the call to the return or  *)
(* the exception.                                                          *)
Prepare ==
    /\ asm_pc = "called"
    /\ LET seen == RowsSeen(asm_fn, input_kind, amm_data)
           data == [i \in 1..Len(seen) |-> Entry(seen[i])]
       IN  IF Unsupported(asm_fn, seen)
           THEN /\ asm_pc' = "raised"
                /\ asm_error' = "ipdb.set_trace"
                /\ df' = <<>>
           ELSE IF Len(data) = 0
           THEN \* assert len(data) > 0
                /\ asm_pc' = "raised"
                /\ asm_error' = "AssertionError"
                /\ df' = <<>>
           ELSE /\ df' \in SortedByTimestamp(data)
                /\ asm_pc' = "returned"
                /\ asm_error' = "none"
    /\ UNCHANGED <<asm_fn, amm_data, input_kind>>
    /\ UNCHANGED <<rpc_vars, walk_vars, cache_vars>>

NextAsm == Prepare

----------------------------------------------------------------------------
(* Bound of the cache model: the number of calls of the decorated          *)
(* function.                                                               *)
MaxCacheCalls == 3

(* The decorated function has the signature func(a, b).                    *)
Signature == {"a", "b"}

ArgValues == {1, 2}

(* A call passes b by position or by keyword.                              *)
WrapperCalls == [args : [Signature -> ArgValues], form : {"positional", "keyword"}]

ArgNameLists == {<<"a">>, <<"b">>, <<"a", "b">>, <<"z">>}

MaxSizes == {1, 2}

(* cache_key: the values of the arguments listed in arg_names.             *)
cache_key(call) == [i \in 1..Len(arg_names) |-> call.args[arg_names[i]]]

(* "Argument not found in function signature".                             *)
NamesFound == \A i \in 1..Len(arg_names) : arg_names[i] \in Signature

(* The key under which lru_cache files a call of cached_func: all its     *)
(* positional and all its keyword arguments, as passed.                    *)
lru_key(call) == call

func(call) == <<call.args["a"], call.args["b"]>>

Without(seq, key) == SelectSeq(seq, LAMBDA k : k # key)

(* lru_cache inserts the new key and, when full, drops the oldest.         *)
Inserted(entries, key, size) ==
    IF Len(entries) < size THEN Append(entries, key)
    ELSE Append(SubSeq(entries, 2, Len(entries)), key)

CacheIdle ==
    /\ arg_names = <<>>
    /\ maxsize = 0
    /\ lru_entries = <<>>
    /\ func_calls = <<>>
    /\ wrapper_calls = <<>>

(* The state after decoration: an empty cache.                             *)
CacheStart ==
    /\ arg_names \in ArgNameLists
    /\ maxsize \in MaxSizes
    /\ lru_entries = <<>>
    /\ func_calls = <<>>
    /\ wrapper_calls = <<>>

(* One call of the decorated function: wrapper -> cached_func, which       *)
(* lru_cache answers from its entries or runs.                             *)
wrapper(call) ==
    /\ Len(wrapper_calls) < MaxCacheCalls
    /\ LET key == lru_key(call)
           hit == \E k \in 1..Len(lru_entries) : lru_entries[k] = key
       IN  IF hit
           THEN /\ lru_entries' = Append(Without(lru_entries, key), key)
                /\ wrapper_calls' = Append(wrapper_calls,
                       [call |-> call, outcome |-> "hit", result |-> func(call)])
                /\ UNCHANGED func_calls
           ELSE IF ~NamesFound
           THEN \* ValueError leaves cached_func: nothing is stored
                /\ wrapper_calls' = Append(wrapper_calls,
                       [call |-> call, outcome |-> "ValueError", result |-> <<>>])
                /\ UNCHANGED <<lru_entries, func_calls>>
           ELSE /\ func_calls' = Append(func_calls, call)
                /\ lru_entries' = Inserted(lru_entries, key, maxsize)
                /\ wrapper_calls' = Append(wrapper_calls,
                       [call |-> call, outcome |-> "miss", result |-> func(call)])
    /\ UNCHANGED <<arg_names, maxsize>>
    /\ UNCHANGED <<rpc_vars, walk_vars, asm_vars>>

NextCache == \E call \in WrapperCalls : wrapper(call)

----------------------------------------------------------------------------
InitRpc == RpcStart /\ WalkIdle /\ AsmIdle /\ CacheIdle

InitWalk == RpcIdle /\ WalkStart /\ AsmIdle /\ CacheIdle

SpecRpc == InitRpc /\ [][NextRpc]_vars

InitRpcAnyBudget == RpcStartAnyBudget /\ WalkIdle /\ AsmIdle /\ CacheIdle

SpecRpcAnyBudget == InitRpcAnyBudget /\ [][NextRpcAnyBudget]_vars

SpecCancel == InitRpc /\ [][NextCancel]_vars

InitJoin == RpcIdle /\ JoinStart /\ AsmIdle /\ CacheIdle

InitAsm == RpcIdle /\ WalkIdle /\ AsmStart /\ CacheIdle

Spec == InitWalk /\ [][NextWalk]_vars

SpecJoin == InitJoin /\ [][NextWalk]_vars

SpecAsm == InitAsm /\ [][NextAsm]_vars

InitCache == RpcIdle /\ WalkIdle /\ AsmIdle /\ CacheStart

SpecCache == InitCache /\ [][NextCache]_vars

SpecRescan == InitWalk /\ [][NextRescan]_vars

InitOverlap == RpcIdle /\ OverlapStart /\ AsmIdle /\ CacheIdle

SpecOverlap == InitOverlap /\ [][NextWalk]_vars

(* The walker is not suspended for ever while it has a statement to run.   *)
InitLive == RpcIdle /\ LiveStart /\ AsmIdle /\ CacheIdle

SpecLive == InitLive /\ [][NextWalk]_vars /\ WF_vars(NextWalk)

----------------------------------------------------------------------------
(* Views of the log of one invocation.                                     *)
Posts == {k \in 1..Len(rpc_log) : rpc_log[k].ev = "post"}

Sleeps == {k \in 1..Len(rpc_log) : rpc_log[k].ev = "sleep"}

RpcEnded == rpc_pc \in {"returned", "raised"}

(* C1: attempts are numbered 0, 1, 2, ... and never exceed max_retries + 1 *)
(* network calls; a return hands back the response of the first attempt    *)
(* with status < 500 and a JSON body, and that attempt is the last network *)
(* call; when attempts 0..max_retries all failed with a retryable error    *)
(* the call has raised the error of attempt max_retries, and that post is  *)
(* the last entry of the log.                                              *)
C1_BoundedRetry ==
    /\ Cardinality(Posts) <= max_retries + 1
    /\ \A k \in Posts : rpc_log[k].att = Cardinality({j \in Posts : j < k})
    /\ \A k \in Posts :
          (rpc_log[k].err = "none" \/ rpc_log[k].err \notin RetryableErrors)
             => k = Len(rpc_log) /\ RpcEnded
    /\ rpc_pc = "returned" =>
          /\ Len(rpc_log) > 0
          /\ LET e == rpc_log[Len(rpc_log)]
             IN  /\ e.ev = "post"
                 /\ e.status < 500
                 /\ e.body = "json"
                 /\ e.err = "none"
                 /\ rpc_result = [kind |-> "response", status |-> e.status,
                                  error |-> None]
          /\ \A k \in Posts : k < Len(rpc_log) => rpc_log[k].err \in RetryableErrors
    /\ (/\ Cardinality(Posts) = max_retries + 1
        /\ \A k \in Posts : rpc_log[k].err \in RetryableErrors)
          => /\ rpc_pc = "raised"
             /\ rpc_log[Len(rpc_log)].ev = "post"
             /\ rpc_result = [kind |-> "error", status |-> 0,
                              error |-> Some([kind |-> rpc_log[Len(rpc_log)].err,
                                              att |-> max_retries])]

C1_Witness ==
    /\ max_retries = 2
    /\ rpc_pc = "raised"
    /\ Cardinality(Posts) = 3
    /\ \A k \in Posts : rpc_log[k].err \in RetryableErrors

C3_ClientErrorNotRetried ==
    \A k \in Posts :
        (rpc_log[k].status >= 400 /\ rpc_log[k].status < 500)
           => /\ k = Len(rpc_log)
              /\ rpc_pc \notin {"backoff", "attempt"}
----------------------------------------------------------------------------
(* Views of a scan.                                                        *)
PageReqs == {k \in 1..Len(requests) : requests[k].kind = "account_tx"}

AuxReqs == {k \in 1..Len(requests) :
               requests[k].kind \in {"account_lines", "account_info"}}

(* The window's maxIndex: the explicit cap if given, else the newest       *)
(* validated ledger of the service.                                        *)
MaxIndex ==
    IF max_ledger_index.some THEN max_ledger_index.v ELSE ServiceLatest

(* The transactions the service returned to page request k.                *)
PageAt(k) ==
    LET r == requests[k]
        all == SelectSeq(Stored, LAMBDA tx : tx.ledger_index <= r.hi)
        first == IF r.marker.some THEN r.marker.v ELSE 1
    IN  SubSeq(all, first, Min(first + limit - 1, Len(all)))

HitsMaxIndex(page) == \E i \in 1..Len(page) : page[i].ledger_index >= MaxIndex

PageDrained == pc \in {"done", "fetching"} /\ Len(transactions) > 0

(* C4: in both walkers no page request follows a page holding a            *)
(* transaction (of any type) at or above maxIndex, and once such a page    *)
(* has been drained the walker is DONE although the response carried a     *)
(* marker; the marker local still holds the marker of the request, the cap *)
(* check having come before the marker check.                              *)
C4_CapStopsPagination ==
    /\ \A j, k \in PageReqs : j < k => ~HitsMaxIndex(PageAt(j))
    /\ (PageDrained /\ HitsMaxIndex(transactions)) =>
          /\ pc = "done"
          /\ marker = requests[CHOOSE k \in PageReqs : \A j \in PageReqs : j <= k].marker

C4_Witness ==
    /\ pc = "done"
    /\ max_ledger_index = None
    /\ Len(transactions) = 1
    /\ transactions[1].TransactionType = "TrustSet"
    /\ HitsMaxIndex(transactions)
    /\ resp_marker.some
    /\ Cardinality(PageReqs) = 2

(* C5: with an explicit cap no emitted record has a ledger index above     *)
(* max_ledger_index.                                                       *)
C5_EmittedWithinCap ==
    max_ledger_index.some =>
        \A i \in 1..Len(emitted) : emitted[i].ledger_index <= max_ledger_index.v

(* C6: consecutive records emitted by the amm walker are at least max_freq *)
(* apart, whatever the order of the dates the service delivers.            *)
C6_SamplingInterval ==
    walker = "amm" =>
        \A i \in 1..(Len(emitted) - 1) :
            emitted[i + 1].date - emitted[i].date >= max_freq

C6_Witness ==
    /\ walker = "amm"
    /\ pc = "done"
    /\ Len(history) = 2
    /\ AllPayments(history)
    /\ history[1].date = 0
    /\ history[2].date = 1
    /\ max_freq = 2
    /\ Len(emitted) = 1
    /\ emitted[1].hash = 1

(* C7: every account_lines and account_info request carries the ledger     *)
(* index of the transaction it is issued for, and every emitted record was *)
(* preceded by an account_lines request (and, one asset being XRP, an      *)
(* account_info request) at the record's own ledger index.                 *)
C7_PointInTimeJoin ==
    /\ \A k \in AuxReqs :
          /\ requests[k].hash \in 1..Len(history)
          /\ requests[k].ledger_index = history[requests[k].hash].ledger_index
    /\ walker = "amm" =>
          \A i \in 1..Len(emitted) :
              /\ \E k \in AuxReqs :
                    /\ requests[k].kind = "account_lines"
                    /\ requests[k].hash = emitted[i].hash
                    /\ requests[k].ledger_index = emitted[i].ledger_index
              /\ ("XRP" \in {asset_1, asset_2}) =>
                    \E k \in AuxReqs :
                        /\ requests[k].kind = "account_info"
                        /\ requests[k].hash = emitted[i].hash
                        /\ requests[k].ledger_index = emitted[i].ledger_index

C7_Witness ==
    /\ walker = "amm"
    /\ pc = "done"
    /\ Len(emitted) = 2
    /\ emitted[1].ledger_index = 1
    /\ emitted[2].ledger_index = 2
    /\ Cardinality(AuxReqs) = 4

(* Whether the auxiliary data of the service holds an entry for an asset:  *)
(* a trust line in that currency, or the XRP balance of the account.       *)
HasEntry(asset) ==
    \/ asset = "XRP"
    \/ \E k \in 1..Len(account_lines) :
          decode_currency_symbol(account_lines[k]) = asset

(* C8: in every emitted record the amount of each configured asset is set  *)
(* if and only if the auxiliary data holds an entry for that asset.        *)
C8_AmountSetIffPresent ==
    \A i \in 1..Len(emitted) :
        /\ emitted[i].amm_asset_1_amount = HasEntry(asset_1)
        /\ emitted[i].amm_asset_2_amount = HasEntry(asset_2)

(* C9: no scan is ended by the failure of an auxiliary query: a scan that  *)
(* has failed failed on a request that is not an account_lines or          *)
(* account_info request.                                                   *)
C9_JoinFailureIsolated ==
    pc = "failed" => Len(requests) \notin AuxReqs
(* C10: the rows an assembler returns are ascending in timestamp, and rows  *)
(* with equal timestamps are ordered by ledger index and then by hash.     *)
C10_DeterministicOrder ==
    asm_pc = "returned" =>
        \A i \in 1..(Len(df) - 1) :
            \/ df[i].timestamp < df[i + 1].timestamp
            \/ /\ df[i].timestamp = df[i + 1].timestamp
               /\ \/ df[i].ledger_index < df[i + 1].ledger_index
                  \/ /\ df[i].ledger_index = df[i + 1].ledger_index
                     /\ df[i].tx_hash < df[i + 1].tx_hash

----------------------------------------------------------------------------
(* The scan has left the walker: by return or by an exception.             *)
ScanEnded == pc \in {"done", "failed", "crashed"}

NoMatch == \A i \in 1..Len(history) : ~TypeMatches(walker, history[i].TransactionType)

(* C11: a scan in which no transaction matches the type filter, and no     *)
(* request ends in an exhausted transport, ends normally with nothing      *)
(* emitted and no error, leaving the assembler to report the empty result. *)
C11_NoMatchCompletesEmpty ==
    (NoMatch /\ ScanEnded /\ scan_error # "TransportExhausted") =>
        /\ pc = "done"
        /\ scan_error = "none"
        /\ emitted = <<>>

(* The assembler's half of C11: with no row to iterate over it raises the  *)
(* assertion 'No ... found' and returns no row.                            *)
C11_AssemblerEmptyResult ==
    (asm_pc # "called" /\ Len(RowsSeen(asm_fn, input_kind, amm_data)) = 0) =>
        /\ asm_pc = "raised"
        /\ asm_error = "AssertionError"
        /\ df = <<>>

(* The hashes a failure-free scan delivers for the transactions txs it has *)
(* been handed, in order: the type filter, and in the amm walker the       *)
(* sampling gate.                                                          *)
RECURSIVE Delivered(_, _, _, _)
Delivered(txs, k, last, acc) ==
    IF k > Len(txs) THEN acc
    ELSE LET tx == txs[k]
             timestamp == ripple_time_to_datetime(tx.date)
         IN  IF walker = "amm"
             THEN IF TypeMatches("amm", tx.TransactionType)
                     /\ ~TooClose(timestamp, last, max_freq)
                  THEN Delivered(txs, k + 1, Some(timestamp), Append(acc, tx.hash))
                  ELSE Delivered(txs, k + 1, last, acc)
             ELSE IF TypeMatches("trades", tx.TransactionType)
                  THEN Delivered(txs, k + 1, last, Append(acc, tx.hash))
                  ELSE Delivered(txs, k + 1, last, acc)

Hashes(records) == [i \in 1..Len(records) |-> records[i].hash]

LastRequest == requests[Len(requests)]

(* The transactions of the pages that precede the page asked for by req.   *)
BeforePage(req) ==
    SubSeq(Eligible(req.lo, req.hi), 1, (IF req.marker.some THEN req.marker.v ELSE 1) - 1)

(* C12: once pagination has begun the walker is FAILED only by a page      *)
(* request that ended in an exhausted transport, and what it has delivered *)
(* is what a failure-free scan delivers for the pages before that request, *)
(* in the same order.                                                      *)
C12_FailedOnlyByPageRequest ==
    (pc = "failed" /\ PageReqs # {}) =>
        /\ LastRequest.kind = "account_tx"
        /\ Hashes(emitted) = Delivered(BeforePage(LastRequest), 1, None, <<>>)

(* The prefix half of C12 alone, for the scans a page request did end.     *)
C12_PrefixDelivered ==
    (pc = "failed" /\ PageReqs # {} /\ LastRequest.kind = "account_tx") =>
        Hashes(emitted) = Delivered(BeforePage(LastRequest), 1, None, <<>>)

(* C13: a currency code that cannot be decoded, in one entry of an         *)
(* account_lines response, never ends the scan.                            *)
C13_DecodeFailureIsolated == ~(pc = "crashed" /\ scan_error = "ValueError")

IsPrefix(a, b) == Len(a) <= Len(b) /\ SubSeq(b, 1, Len(a)) = a

C15_NoDuplicateHash ==
    \A i \in 1..Len(emitted) : \A j \in 1..Len(emitted) :
        i < j => emitted[i].hash # emitted[j].hash

PageSeq == SelectSeq(requests, LAMBDA r : r.kind = "account_tx")

(* The response of the service to a page request.                          *)
ResponseTo(req) == PageOf(req.marker, limit, req.lo, req.hi)

(* C16: once the cancellation signal is set no further request and no      *)
(* further backoff sleep is started, and the invocation ends with a        *)
(* Cancelled condition.                                                    *)
C16_CancellationHonoured ==
    cancel_at.some =>
        /\ Len(rpc_log) = cancel_at.v
        /\ RpcEnded => /\ rpc_result.error.some
                       /\ rpc_result.error.v.kind = "Cancelled"

(* The distinct values of the named arguments among the first j calls.     *)
NamedKeys(j) == {cache_key(wrapper_calls[k].call) : k \in 1..j}

(* C17: of two calls that agree on every argument listed in arg_names, the *)
(* later one is answered from the cache without invoking the wrapped       *)
(* function, as long as no more than maxsize distinct values of the named  *)
(* arguments have been used (so that no entry has been evicted).           *)
C17_CachedOnNamedArguments ==
    NamesFound =>
        \A i \in 1..Len(wrapper_calls) : \A j \in 1..Len(wrapper_calls) :
            (/\ i < j
             /\ cache_key(wrapper_calls[i].call) = cache_key(wrapper_calls[j].call)
             /\ Cardinality(NamedKeys(j)) <= maxsize)
            => wrapper_calls[j].outcome = "hit"

(* C18: the first page request carries no cursor; every later one carries  *)
(* the cursor of the response to the one before it, which therefore had    *)
(* one; and the cursor held for the next request is the one last received. *)
C18_CursorProtocol ==
    /\ Len(PageSeq) >= 1 => PageSeq[1].marker = None
    /\ \A k \in 2..Len(PageSeq) :
          /\ ResponseTo(PageSeq[k - 1]).marker.some
          /\ PageSeq[k].marker = ResponseTo(PageSeq[k - 1]).marker
    /\ pc = "fetching" =>
          marker = (IF PageSeq = <<>> THEN None
                    ELSE ResponseTo(PageSeq[Len(PageSeq)]).marker)

C18_Witness ==
    /\ pc = "done"
    /\ Len(PageSeq) = 3
    /\ PageSeq[3].marker.some
    /\ ~ResponseTo(PageSeq[3]).marker.some

(* C19: the amm walker, given a first page with no transaction and no      *)
(* marker, ends DONE with nothing emitted and no error.                    *)
C19_EmptyAccountDone ==
    (walker = "amm" /\ history = <<>> /\ ScanEnded
       /\ scan_error # "TransportExhausted") =>
        /\ pc = "done"
        /\ scan_error = "none"
        /\ emitted = <<>>

(* No two page requests of a scan carry the same cursor, and a scan of n   *)
(* transactions makes at most n + 1 of them.                               *)
PagesProgress ==
    /\ Len(PageSeq) <= Len(history) + 1
    /\ \A j \in 1..Len(PageSeq) : \A k \in 1..Len(PageSeq) :
          j < k => PageSeq[j].marker # PageSeq[k].marker

----------------------------------------------------------------------------
(* One iteration of the for loop of the amm walker is about to run.        *)
AmmIteration == walker = "amm" /\ pc = "draining" /\ pos <= Len(transactions)

(* A Payment that is the first to be emitted or comes at least max_freq    *)
(* after the last emission.                                                *)
Admitted(tx) ==
    /\ tx.TransactionType = "Payment"
    /\ \/ ~last_event.some
       \/ ripple_time_to_datetime(tx.date) - last_event.v >= max_freq

(* The iteration emits tx and nothing else.                                *)
Emits(tx) ==
    /\ Len(emitted') = Len(emitted) + 1
    /\ SubSeq(emitted', 1, Len(emitted)) = emitted
    /\ emitted'[Len(emitted')].hash = tx.hash

(* C21: an iteration of the amm walker emits the transaction if and only   *)
(* if it is a Payment and either nothing has been emitted yet or its       *)
(* timestamp is at least max_freq after the last emission; on emission     *)
(* last_event becomes that timestamp; a dropped Payment and a transaction  *)
(* of another type leave last_event and the emitted records as they were.  *)
C21_GateDecision ==
    [][AmmIteration =>
        LET tx == transactions[pos]
        IN  IF Admitted(tx)
            THEN /\ Emits(tx)
                 /\ last_event' = Some(ripple_time_to_datetime(tx.date))
            ELSE /\ emitted' = emitted
                 /\ last_event' = last_event]_vars

(* The gate decision of C21 in the iterations that no exception cuts       *)
(* short; one that is cut short emits nothing and leaves last_event.       *)
C21_GateOnCompletedIteration ==
    [][AmmIteration =>
        LET tx == transactions[pos]
        IN  IF Admitted(tx) /\ pc' = "yielded"
            THEN /\ Emits(tx)
                 /\ last_event' = Some(ripple_time_to_datetime(tx.date))
            ELSE /\ emitted' = emitted
                 /\ last_event' = last_event]_vars

LinesReqs == {k \in AuxReqs : requests[k].kind = "account_lines"}

EmittedHashes == {emitted[i].hash : i \in 1..Len(emitted)}

(* C22: in the amm walker every account_lines and balance query is for an  *)
(* emitted event, never for a transaction dropped by the type filter or    *)
(* the gate; each emitted event has exactly one account_lines query; the   *)
(* number of account_lines queries equals the number of emitted records.   *)
C22_AuxOnlyForSampled ==
    walker = "amm" =>
        /\ \A k \in AuxReqs : requests[k].hash \in EmittedHashes
        /\ \A i \in 1..Len(emitted) :
              Cardinality({k \in LinesReqs : requests[k].hash = emitted[i].hash}) = 1
        /\ Cardinality(LinesReqs) = Len(emitted)

(* What holds of the queries whatever ends the scan: they are made for     *)
(* Payments only, one account_lines query per transaction at most, one for *)
(* each emitted record, and the only query without a record is that of the *)
(* join an exception has cut short, which is the last request of the scan. *)
C22_AuxOnlyForAdmitted ==
    walker = "amm" =>
        /\ \A k \in AuxReqs : history[requests[k].hash].TransactionType = "Payment"
        /\ \A j \in LinesReqs : \A k \in LinesReqs :
              requests[j].hash = requests[k].hash => j = k
        /\ \A i \in 1..Len(emitted) :
              \E k \in LinesReqs : requests[k].hash = emitted[i].hash
        /\ \A k \in AuxReqs :
              requests[k].hash \notin EmittedHashes =>
                  /\ pc \in {"failed", "crashed"}
                  /\ requests[Len(requests)].hash = requests[k].hash

LedgerReqs == {k \in 1..Len(requests) : requests[k].kind = "ledger"}

(* C23: the newest validated ledger is asked for once in a scan, as its    *)
(* first request and so before any page request; every page request       *)
(* carries the bounds fixed then, the lower bound of the call and the      *)
(* answer to that query; and when the query fails the scan is over with no *)
(* page request made and no record emitted.                                *)
C23_WindowResolvedOnceFirst ==
    /\ Cardinality(LedgerReqs) <= 1
    /\ requests # <<>> => LedgerReqs = {1}
    /\ \A k \in PageReqs :
          /\ requests[k].hi = get_latest_ledger_index
          /\ requests[k].lo = (IF walker = "amm" THEN min_ledger_index ELSE -1)
    /\ \A j \in PageReqs : \A k \in PageReqs :
          requests[j].lo = requests[k].lo /\ requests[j].hi = requests[k].hi
    /\ (ScanEnded /\ Len(requests) = 1) =>
          /\ pc = "failed"
          /\ PageReqs = {}
          /\ emitted = <<>>

(* A scan of the amm walker over three pages whose transactions lie in     *)
(* different ledgers.                                                      *)
C23_Witness ==
    /\ walker = "amm"
    /\ pc = "done"
    /\ Cardinality(PageReqs) = 3
    /\ Cardinality(LedgerReqs) = 1
    /\ history[1].ledger_index < history[3].ledger_index

(* A scan whose query for the newest validated ledger failed.              *)
C23_WitnessSetupFailed ==
    /\ pc = "failed"
    /\ Len(requests) = 1
    /\ requests[1].kind = "ledger"
    /\ Len(history) > 0

(* The generator is suspended at a yield, its record in the consumer's     *)
(* hands.                                                                  *)
Suspended == pc = "yielded"

(* Never ahead of the consumer: nothing is requested or emitted before the *)
(* first next() call, and the records emitted are as many as the next()    *)
(* calls made, less the one the generator is running in.                   *)
OnDemand ==
    /\ next_calls = 0 => requests = <<>> /\ emitted = <<>>
    /\ next_calls > 0 =>
          Len(emitted) = (IF Suspended THEN next_calls ELSE next_calls - 1)

(* A page request is made inside a next() call that the consumer issued    *)
(* after taking every record emitted so far, once the page before has been *)
(* read to its end and every auxiliary query made has given its record.    *)
PageRequestedWhenDue ==
    Len(PageSeq') > Len(PageSeq) =>
        /\ next_calls = Len(emitted) + 1
        /\ PageSeq = <<>> \/ pos > Len(transactions)
        /\ \A k \in AuxReqs : requests[k].hash \in EmittedHashes

HashCount(hashes, h) == Cardinality({i \in 1..Len(hashes) : hashes[i] = h})

InputHashes == [i \in 1..Len(amm_data) |-> amm_data[i].hash]

OutputHashes == [i \in 1..Len(df) |-> df[i].tx_hash]

(* The rows returned carry the hashes of the records given, each as often. *)
OneRowPerRecord ==
    /\ asm_pc = "returned"
    /\ Len(df) = Len(amm_data)
    /\ \A i \in 1..Len(amm_data) :
          HashCount(OutputHashes, amm_data[i].hash)
              = HashCount(InputHashes, amm_data[i].hash)

(* C25: prepare_amm_data, given at least one record in any iterable, a     *)
(* one-shot iterator included, returns exactly one row per record.         *)
C25_OneRowPerRecord ==
    (asm_fn = "prepare_amm_data" /\ asm_pc # "called" /\ Len(amm_data) >= 1)
        => OneRowPerRecord

(* C25 for the inputs that can be iterated more than once.                 *)
C25_OneRowPerRecordOfList ==
    (asm_fn = "prepare_amm_data" /\ asm_pc # "called" /\ Len(amm_data) >= 1
       /\ input_kind = "list")
        => OneRowPerRecord

(* The attempt numbers of the POSTs of the current invocation, in order.   *)
PostAttempts == SelectSeq(rpc_log, LAMBDA e : e.ev = "post")

(* The invocation ended by returning a decoded Response or by raising.     *)
ResponseOrError ==
    \/ rpc_pc = "returned" /\ rpc_result.kind = "response"
    \/ rpc_pc = "raised" /\ rpc_result.kind = "error" /\ rpc_result.error.some

(* C26: with max_retries >= 0 every ended invocation has made at least one *)
(* attempt and has either returned a Response or raised; with a negative   *)
(* max_retries no attempt is made; every invocation counts its attempts    *)
(* from 0, whatever the invocations before it did.                         *)
C26_AttemptedThenResponseOrError ==
    /\ (max_retries >= 0 /\ RpcEnded) => (Posts # {} /\ ResponseOrError)
    /\ max_retries < 0 => Posts = {}
    /\ (rpc_log = <<>> /\ rpc_pc = "attempt") => attempt = 0
    /\ \A k \in 1..Len(PostAttempts) : PostAttempts[k].att = k - 1

(* A second invocation that used its whole budget and raised.              *)
C26_Witness ==
    /\ calls = 2
    /\ max_retries >= 1
    /\ rpc_pc = "raised"
    /\ Cardinality(Posts) = max_retries + 1

(* With a negative budget the invocation returns without a Response.       *)
C26_WitnessNoAttempt ==
    /\ max_retries < 0
    /\ rpc_pc = "returned"
    /\ rpc_result.kind = "none"
    /\ Posts = {}

====
